---- MODULE Spec2Model ----
(***************************************************************************)
(* State-machine model of the sports commentary pipeline:                  *)
(*   GameAnalyzer         src/src/commentary/analyzer.py                   *)
(*   CommentaryGenerator  src/src/commentary/generator.py                  *)
(*   validate_game_data   src/src/utils/validators.py                      *)
(*   SpeechSynthesizer    src/src/speech/synthesizer.py (voice profiles)   *)
(*   GroqClient           src/src/api/groq_client.py                       *)
(*                                                                         *)
(* Python values are modelled as follows.                                  *)
(*   dict        a function whose DOMAIN is the set of keys present        *)
(*   list        a sequence                                                *)
(*   str         a string (Len, \o and SubSeq act on its characters)       *)
(*   Optional[x] <<>> for None, <<x>> otherwise                            *)
(*   float       an integer count of a fixed unit, exact arithmetic:       *)
(*                 momentum, efficiency, thresholds  1/1000  (Milli)       *)
(*                 event importance                  1/36000 (ImpOne)      *)
(*   a call      [raised |-> FALSE, val |-> v] when it returns v,          *)
(*               [raised |-> TRUE,  val |-> "<ExceptionName>"] when it     *)
(*               raises                                                    *)
(***************************************************************************)
EXTENDS Integers, Sequences, FiniteSets, TLC

VARIABLES
    previous_stats,      \* GameAnalyzer.previous_stats: <<>> or <<snapshot>>
    analysis_result,     \* outcome of the last analyze_game_state call
    analyzed,            \* argument of the last analyze_game_state call: <<>> or <<snapshot>>
    calls,               \* parity of the number of analyze_game_state calls made
    recent_events,       \* argument of the last _identify_key_moments call
    key_moments,         \* its return value
    last_used_patterns,  \* CommentaryGenerator.last_used_patterns
    commentary,          \* outcome of the last generate_commentary call
    request,             \* arguments of the last generate_commentary call: <<>> or <<r>>
    path,                \* how that call ended: "template", "no_template" or "error"
    candidates,          \* patterns of the templates its _filter_templates returned
    history,             \* per pattern: calls since it was last rendered (-1: never),
                         \* and whether it was evicted from last_used_patterns since
    voice_profiles,      \* SpeechSynthesizer.voice_profiles
    invoked,             \* the last call of a stateless operation: <<>> or
                         \* <<[op |-> name, args |-> arguments]>>
    returned             \* outcome of that call

vars == <<previous_stats, analysis_result, analyzed, calls, recent_events, key_moments,
          last_used_patterns, commentary, request, path, candidates, history,
          voice_profiles, invoked, returned>>

analyzerVars == <<previous_stats, analysis_result, analyzed>>
momentVars == <<recent_events, key_moments>>
generatorVars == <<last_used_patterns, commentary, request, path, candidates, history>>
synthesizerVars == <<voice_profiles>>
callVars == <<invoked, returned>>

---------------------------------------------------------------------------
(* Python primitives *)

None == <<>>
Some(x) == <<x>>

Ok(v) == [raised |-> FALSE, val |-> v]
Raise(e) == [raised |-> TRUE, val |-> e]

\* dict.get(k, default)
Get(d, k, default) == IF k \in DOMAIN d THEN d[k] ELSE default

Min(a, b) == IF a <= b THEN a ELSE b

Abs(a) == IF a < 0 THEN -a ELSE a

\* one thousandth is the unit of momentum, efficiency, pressure and thresholds
Milli == 10 * 100

\* round(n / d) for d > 0, ties to the even neighbour as Python's round does
RoundHalfEven(n, d) ==
    LET q == n \div d
        r == n % d
    IN  IF 2 * r < d THEN q
        ELSE IF 2 * r > d THEN q + 1
        ELSE IF q % 2 = 0 THEN q ELSE q + 1

\* round(n / d, k) in Milli, where step is the Milli value of the last kept
\* decimal place (10 for k = 2, 1 for k = 3); ZeroDivisionError when d = 0
RoundedQuotient(n, d, step) ==
    IF d = 0 THEN Raise("ZeroDivisionError")
    ELSE IF d > 0 THEN Ok(step * RoundHalfEven(n * (Milli \div step), d))
    ELSE Ok(step * RoundHalfEven((-n) * (Milli \div step), -d))

SeqsUpTo(S, n) == UNION {[1..k -> S] : k \in 0..n}

\* str.lower() on the letters that occur in event types
LowerChar(c) ==
    CASE c = "A" -> "a" [] c = "C" -> "c" [] c = "E" -> "e" [] c = "G" -> "g"
      [] c = "H" -> "h" [] c = "I" -> "i" [] c = "J" -> "j" [] c = "L" -> "l"
      [] c = "M" -> "m" [] c = "N" -> "n" [] c = "O" -> "o" [] c = "P" -> "p"
      [] c = "R" -> "r" [] c = "S" -> "s" [] c = "T" -> "t" [] c = "U" -> "u"
      [] c = "Y" -> "y" [] OTHER -> c

RECURSIVE Lower(_)
Lower(s) ==
    IF Len(s) = 0 THEN s
    ELSE LowerChar(SubSeq(s, 1, 1)) \o Lower(SubSeq(s, 2, Len(s)))

\* sub in s
Contains(s, sub) ==
    \E i \in 1..(Len(s) - Len(sub) + 1) : SubSeq(s, i, i + Len(sub) - 1) = sub

\* int(c) for a one-character string
DigitVal(c) ==
    CASE c = "0" -> 0 [] c = "1" -> 1 [] c = "2" -> 2 [] c = "3" -> 3 [] c = "4" -> 4
      [] c = "5" -> 5 [] c = "6" -> 6 [] c = "7" -> 7 [] c = "8" -> 8 [] c = "9" -> 9
      [] OTHER -> -1

RECURSIVE DigitsVal(_)
DigitsVal(s) ==
    IF Len(s) = 0 THEN 0
    ELSE 10 * DigitsVal(SubSeq(s, 1, Len(s) - 1)) + DigitVal(SubSeq(s, Len(s), Len(s)))

\* int(s): a non-empty run of decimal digits, ValueError otherwise
IntOf(s) ==
    IF Len(s) > 0 /\ \A i \in 1..Len(s) : DigitVal(SubSeq(s, i, i)) >= 0
    THEN Ok(DigitsVal(s))
    ELSE Raise("ValueError")

\* s.split(':')
RECURSIVE SplitColon(_)
SplitColon(s) ==
    IF \A i \in 1..Len(s) : SubSeq(s, i, i) # ":" THEN <<s>>
    ELSE LET i == CHOOSE j \in 1..Len(s) :
                      /\ SubSeq(s, j, j) = ":"
                      /\ \A k \in 1..(j - 1) : SubSeq(s, k, k) # ":"
         IN  <<SubSeq(s, 1, i - 1)>> \o SplitColon(SubSeq(s, i + 1, Len(s)))

---------------------------------------------------------------------------
(* GameAnalyzer *)

\* the divisor of analyzer.py line 141; one tenth of an importance of 1.0
SecondsPerHour == 3600

\* importance 1.0 in importance units
ImpOne == 10 * SecondsPerHour

\* GameAnalyzer.momentum_threshold = 0.6
momentum_threshold == 6 * SecondsPerHour

\* GameAnalyzer.significant_events, in tenths
significant_events ==
    [score_change |-> 8, possession_change |-> 4, timeout |-> 5,
     injury |-> 7, penalty |-> 6]

\* base_importance * (1 + min(1.0, 1.5 - time_remaining / 3600)), capped at 1.0
_calculate_event_importance(event) ==
    LET base_importance == Get(significant_events, Lower(event.type), 3)
        time_factor == Min(SecondsPerHour,
                           (3 * SecondsPerHour) \div 2 - event.time_remaining)
    IN  IF "time_remaining" \in DOMAIN event
        THEN Min(ImpOne, base_importance * (SecondsPerHour + time_factor))
        ELSE Min(ImpOne, base_importance * SecondsPerHour)

GameMoment(event, importance) ==
    [timestamp |-> event.timestamp,
     event_type |-> event.type,
     importance |-> importance,
     description |-> event.description,
     teams_involved |-> event.teams,
     score_change |-> Contains(Lower(event.type), "score"),
     momentum_shift |-> importance > 7 * SecondsPerHour]

\* the loop of _identify_key_moments: the moments kept, in event order
RECURSIVE KeptMoments(_)
KeptMoments(events) ==
    IF events = <<>> THEN <<>>
    ELSE LET event == Head(events)
             importance == _calculate_event_importance(event)
         IN  (IF importance >= momentum_threshold
              THEN <<GameMoment(event, importance)>>
              ELSE <<>>) \o KeptMoments(Tail(events))

\* list.insert keeping the list sorted by decreasing importance, after the
\* entries of equal importance
RECURSIVE InsertDesc(_, _)
InsertDesc(sorted, m) ==
    IF sorted = <<>> THEN <<m>>
    ELSE IF Head(sorted).importance >= m.importance
         THEN <<Head(sorted)>> \o InsertDesc(Tail(sorted), m)
         ELSE <<m>> \o sorted

\* mutant: reverse=True left out, the moments come in increasing importance
RECURSIVE SortedByImportance_ascending(_)
SortedByImportance_ascending(moments) ==
    IF moments = <<>> THEN <<>>
    ELSE LET last == moments[Len(moments)]
             before == SortedByImportance_ascending(SubSeq(moments, 1, Len(moments) - 1))
             smaller == {i \in 1..Len(before) : before[i].importance <= last.importance}
         IN  SubSeq(before, 1, Cardinality(smaller)) \o <<last>>
             \o SubSeq(before, Cardinality(smaller) + 1, Len(before))

\* sorted(key_moments, key=lambda x: x.importance, reverse=True): a stable sort
RECURSIVE SortedByImportance(_)
SortedByImportance(moments) ==
    IF moments = <<>> THEN <<>>
    ELSE InsertDesc(SortedByImportance(SubSeq(moments, 1, Len(moments) - 1)),
                    moments[Len(moments)])

_identify_key_moments(stats) ==
    SortedByImportance(KeptMoments(Get(stats, "recent_events", <<>>)))

\* the scoring loop of _calculate_momentum: what the plays add to the home
\* side (and take from the away side)
RECURSIVE ScoringTrend(_, _)
ScoringTrend(recent_scores, home_team) ==
    IF recent_scores = <<>> THEN 0
    ELSE (IF Head(recent_scores).team = home_team THEN 100 ELSE -100)
         + ScoringTrend(Tail(recent_scores), home_team)

\* mutant: the bonus goes to the home team whoever holds possession
PossessionBonus_always_home(stats) ==
    IF "possession" \in DOMAIN stats THEN <<50, 0>> ELSE <<0, 0>>

\* possession_bonus = 0.05, as <<home share, away share>>
PossessionBonus(stats) ==
    IF "possession" \in DOMAIN stats
    THEN IF stats.possession = stats.home_team THEN <<50, 0>> ELSE <<0, 50>>
    ELSE <<0, 0>>

\* not self.previous_stats: None and the empty dict are both falsy
NoPrevious(prev) == prev = None \/ DOMAIN prev[1] = {}

_calculate_momentum(prev, stats) ==
    IF NoPrevious(prev) THEN Ok([home |-> 500, away |-> 500])
    ELSE LET trend == ScoringTrend(Get(stats, "recent_scores", <<>>), stats.home_team)
             bonus == PossessionBonus(stats)
             home_momentum == 500 + trend + bonus[1]
             away_momentum == 500 - trend + bonus[2]
             total == home_momentum + away_momentum
             home == RoundedQuotient(home_momentum, total, 10)
             away == RoundedQuotient(away_momentum, total, 10)
         IN  IF home.raised THEN home
             ELSE Ok([home |-> home.val, away |-> away.val])

\* round(successes / attempts, 3)
_calculate_efficiency(stats, team) ==
    LET attempts == Get(stats, team \o "_attempts", 1)
        successes == Get(stats, team \o "_successes", 0)
    IN  RoundedQuotient(successes, attempts, 1)

\* min(1.0, pressure / 100)
_calculate_pressure(stats, team) ==
    Min(Milli, Get(stats, team \o "_pressure", 0) * 10)

\* min(1.0, defense / 100)
_calculate_defense(stats, team) ==
    Min(Milli, Get(stats, team \o "_defense", 0) * 10)

_analyze_performance(stats) ==
    LET home == _calculate_efficiency(stats, "home")
        away == _calculate_efficiency(stats, "away")
    IN  IF home.raised THEN home
        ELSE IF away.raised THEN away
        ELSE Ok([home |-> [efficiency |-> home.val,
                           pressure |-> _calculate_pressure(stats, "home"),
                           defense |-> _calculate_defense(stats, "home")],
                 away |-> [efficiency |-> away.val,
                           pressure |-> _calculate_pressure(stats, "away"),
                           defense |-> _calculate_defense(stats, "away")]])

\* int(parts[0]) * 60 + int(parts[1])
_parse_time_remaining(time_str) ==
    LET parts == SplitColon(time_str)
        minutes == IntOf(parts[1])
    IN  IF minutes.raised THEN minutes
        ELSE IF Len(parts) < 2 THEN Raise("IndexError")
        ELSE LET seconds == IntOf(parts[2])
             IN  IF seconds.raised THEN seconds
                 ELSE Ok(minutes.val * 60 + seconds.val)

\* The three helpers that _assess_game_situation calls are defined in no
\* file of src/.  They are taken from the design text: a criticality derived
\* from (time remaining, score difference), a phase keyed off time
\* remaining, and a textual context; each is kept as an uninterpreted term.
_calculate_criticality(time_remaining, score_difference) ==
    <<"criticality", time_remaining, score_difference>>

_determine_game_phase(time_remaining) == <<"phase", time_remaining>>

_generate_situation_context(stats) ==
    <<"context", stats.home_team, stats.home_score, stats.away_team, stats.away_score>>

_assess_game_situation(stats) ==
    LET time_remaining == _parse_time_remaining(stats.game_time)
        score_difference == Abs(stats.home_score - stats.away_score)
    IN  IF time_remaining.raised THEN time_remaining
        ELSE Ok([criticality |-> _calculate_criticality(time_remaining.val,
                                                        score_difference),
                 phase |-> _determine_game_phase(time_remaining.val),
                 context |-> _generate_situation_context(stats)])

\* mutant: previous_stats is overwritten before the analysis is computed
analyze_game_state_commit_first(prev, current_stats) ==
    LET momentum == _calculate_momentum(prev, current_stats)
        performance == _analyze_performance(current_stats)
        situation == _assess_game_situation(current_stats)
    IN  [outcome |-> IF momentum.raised THEN momentum
                     ELSE IF performance.raised THEN performance
                     ELSE IF situation.raised THEN situation
                     ELSE Ok([key_moments |-> _identify_key_moments(current_stats),
                              momentum |-> momentum.val,
                              performance_metrics |-> performance.val,
                              game_situation |-> situation.val]),
         previous_stats |-> Some(current_stats)]

\* analyze_game_state: the outcome of the call and previous_stats after it
analyze_game_state(prev, current_stats) ==
    LET moments == _identify_key_moments(current_stats)
        momentum == _calculate_momentum(prev, current_stats)
        performance == _analyze_performance(current_stats)
        situation == _assess_game_situation(current_stats)
    IN  IF momentum.raised THEN [outcome |-> momentum, previous_stats |-> prev]
        ELSE IF performance.raised THEN [outcome |-> performance, previous_stats |-> prev]
        ELSE IF situation.raised THEN [outcome |-> situation, previous_stats |-> prev]
        ELSE [outcome |-> Ok([key_moments |-> moments,
                              momentum |-> momentum.val,
                              performance_metrics |-> performance.val,
                              game_situation |-> situation.val]),
              previous_stats |-> Some(current_stats)]

---------------------------------------------------------------------------
(* CommentaryGenerator *)

\* CommentaryGenerator.max_pattern_memory
max_pattern_memory == 5

NeutralPattern == "{team} {action} as they {momentum_description}"
ExcitedPattern == "What a {intensity} performance by {team}! {key_stat}"
AnalyticalPattern == "Looking at the numbers, {team}'s {stat_type} shows {analysis}"

\* conditions: the items of the dict, in order; thresholds in Milli
_load_templates ==
    <<[pattern |-> NeutralPattern,
       conditions |-> <<[condition |-> "momentum", threshold |-> 700]>>,
       style |-> "neutral", priority |-> 1],
      [pattern |-> ExcitedPattern,
       conditions |-> <<[condition |-> "performance", threshold |-> 800]>>,
       style |-> "excited", priority |-> 2],
      [pattern |-> AnalyticalPattern,
       conditions |-> <<[condition |-> "efficiency", threshold |-> 600]>>,
       style |-> "analytical", priority |-> 1]>>

\* d.values()
Values(d) == {d[k] : k \in DOMAIN d}

\* max(values), ValueError on an empty collection
MaxOf(values) ==
    IF values = {} THEN Raise("ValueError")
    ELSE Ok(CHOOSE v \in values : \A w \in values : w <= v)

\* mutant: the lowest momentum value is compared with the threshold
_check_condition_lowest(analysis, condition, threshold) ==
    IF condition = "momentum"
    THEN LET values == Values(Get(analysis, "momentum", <<>>))
         IN  IF values = {} THEN Raise("ValueError")
             ELSE Ok(\A v \in values : v >= threshold)
    ELSE IF condition \in {"performance", "efficiency"}
    THEN LET performances == Values(Get(analysis, "performance_metrics", <<>>))
         IN  Ok(\E p \in performances : Get(p, "efficiency", 0) >= threshold)
    ELSE Ok(FALSE)

_check_condition(analysis, condition, threshold) ==
    IF condition = "momentum"
    THEN LET momentum == MaxOf(Values(Get(analysis, "momentum", <<>>)))
         IN  IF momentum.raised THEN momentum ELSE Ok(momentum.val >= threshold)
    ELSE IF condition \in {"performance", "efficiency"}
    THEN LET performances == Values(Get(analysis, "performance_metrics", <<>>))
         IN  Ok(\E p \in performances : Get(p, "efficiency", 0) >= threshold)
    ELSE Ok(FALSE)

\* all(_check_condition(...) for condition, threshold in conditions.items())
RECURSIVE AllConditions(_, _)
AllConditions(analysis, conditions) ==
    IF conditions = <<>> THEN Ok(TRUE)
    ELSE LET c == _check_condition(analysis, Head(conditions).condition,
                                   Head(conditions).threshold)
         IN  IF c.raised THEN c
             ELSE IF ~c.val THEN Ok(FALSE)
             ELSE AllConditions(analysis, Tail(conditions))

\* pattern in last_used_patterns
InList(x, list) == \E i \in 1..Len(list) : list[i] = x

\* the loop of _filter_templates over the templates still to visit
RECURSIVE FilterFrom(_, _, _, _)
FilterFrom(templates, last_used, analysis, style) ==
    IF templates = <<>> THEN Ok(<<>>)
    ELSE LET template == Head(templates)
             rest == FilterFrom(Tail(templates), last_used, analysis, style)
         IN  IF template.style # style THEN rest
             ELSE LET conditions_met == AllConditions(analysis, template.conditions)
                  IN  IF conditions_met.raised THEN conditions_met
                      ELSE IF rest.raised THEN rest
                      ELSE IF conditions_met.val /\ ~InList(template.pattern, last_used)
                           THEN Ok(<<template>> \o rest.val)
                           ELSE rest

\* mutant: the pattern memory is not consulted
_filter_templates_ignoring_memory(last_used, analysis, style) ==
    FilterFrom(_load_templates, <<>>, analysis, style)

_filter_templates(last_used, analysis, style) ==
    FilterFrom(_load_templates, last_used, analysis, style)

\* _select_template: the templates that random.uniform(0.8, 1.2) can give the
\* largest weight; none for an empty list
_select_template(templates) ==
    {templates[i] : i \in {j \in 1..Len(templates) :
        \A k \in 1..Len(templates) :
            templates[j].priority * 12 >= templates[k].priority * 8}}

\* mutant: a tie goes to the away team
_get_leading_team_away_on_tie(analysis) ==
    LET home_score == Get(analysis, "home_score", 0)
        away_score == Get(analysis, "away_score", 0)
    IN  IF home_score > away_score THEN Get(analysis, "home_team", "Home team")
        ELSE Get(analysis, "away_team", "Away team")

_get_leading_team(analysis) ==
    LET home_score == Get(analysis, "home_score", 0)
        away_score == Get(analysis, "away_score", 0)
    IN  IF home_score > away_score THEN Get(analysis, "home_team", "Home team")
        ELSE IF away_score > home_score THEN Get(analysis, "away_team", "Away team")
        ELSE Get(analysis, "home_team", "Home team")

_describe_momentum(momentum) ==
    IF DOMAIN momentum = {} THEN "continue to play"
    ELSE LET momentum_value == MaxOf(Values(momentum)).val
         IN  IF momentum_value > 800 THEN "dominate the game"
             ELSE IF momentum_value > 600 THEN "maintain control"
             ELSE "push forward"

\* The five helpers below are called by _fill_template and defined in no file
\* of src/.  The design text gives them as short phrases derived from the
\* analysis; each is kept as a fixed non-empty phrase.
_get_team_action(analysis) == "press on"

_get_intensity_descriptor(performance) == "strong"

_get_key_statistic(performance) == "Efficiency is up."

_get_stat_type(performance) == "efficiency"

_analyze_statistic(performance) == "a steady trend"

\* template.pattern.format(**context)
Format(pattern, context) ==
    CASE pattern = NeutralPattern ->
            context.team \o " " \o context.action \o " as they "
            \o context.momentum_description
      [] pattern = ExcitedPattern ->
            "What a " \o context.intensity \o " performance by " \o context.team
            \o "! " \o context.key_stat
      [] pattern = AnalyticalPattern ->
            "Looking at the numbers, " \o context.team \o "'s " \o context.stat_type
            \o " shows " \o context.analysis

_fill_template(template, analysis) ==
    LET momentum == Get(analysis, "momentum", <<>>)
        performance == Get(analysis, "performance_metrics", <<>>)
        context == [team |-> _get_leading_team(analysis),
                    action |-> _get_team_action(analysis),
                    momentum_description |-> _describe_momentum(momentum),
                    intensity |-> _get_intensity_descriptor(performance),
                    key_stat |-> _get_key_statistic(performance),
                    stat_type |-> _get_stat_type(performance),
                    analysis |-> _analyze_statistic(performance)]
    IN  Format(template.pattern, context)

\* f"The game continues with a score of {home_score}-{away_score}."
_generate_fallback_commentary(analysis) ==
    "The game continues with a score of " \o ToString(Get(analysis, "home_score", 0))
    \o "-" \o ToString(Get(analysis, "away_score", 0)) \o "."

\* text[:n]
Prefix(text, n) ==
    IF n >= 0 THEN SubSeq(text, 1, Min(Len(text), n))
    ELSE SubSeq(text, 1, Len(text) + n)

\* mutant: list.extend in place of list.append, which adds the pattern's
\* characters one by one
UpdatePatternMemory_extend(last_used, pattern) ==
    LET appended == last_used \o [i \in 1..Len(pattern) |-> SubSeq(pattern, i, i)]
    IN  IF Len(appended) > max_pattern_memory THEN Tail(appended) ELSE appended

\* lines 53-55: append the pattern, pop the oldest entry beyond the memory size
UpdatePatternMemory(last_used, pattern) ==
    LET appended == Append(last_used, pattern)
    IN  IF Len(appended) > max_pattern_memory THEN Tail(appended) ELSE appended

\* mutant: no except clause, the exception reaches the caller
HandleException_reraise(last_used, analysis, error) ==
    [outcome |-> Raise(error), last_used_patterns |-> last_used, path |-> "error",
     candidates |-> {}, rendered |-> None]

\* what the except clause of generate_commentary does with an exception
HandleException(last_used, analysis, error) ==
    [outcome |-> Ok(_generate_fallback_commentary(analysis)),
     last_used_patterns |-> last_used, path |-> "error", candidates |-> {},
     rendered |-> None]

\* mutant: the fallback for an empty candidate list clears the pattern memory
generate_commentary_clearing_memory(last_used, analysis, style, max_length) ==
    LET relevant_templates == _filter_templates(last_used, analysis, style)
    IN  IF relevant_templates.raised
        THEN {HandleException(last_used, analysis, relevant_templates.val)}
        ELSE IF relevant_templates.val = <<>>
        THEN {[outcome |-> Ok(_generate_fallback_commentary(analysis)),
               last_used_patterns |-> <<>>, path |-> "no_template",
               candidates |-> {}, rendered |-> None]}
        ELSE {[outcome |-> Ok(Prefix(_fill_template(selected_template, analysis),
                                     max_length)),
               last_used_patterns |->
                   UpdatePatternMemory(last_used, selected_template.pattern),
               path |-> "template",
               candidates |-> {relevant_templates.val[i].pattern :
                                  i \in 1..Len(relevant_templates.val)},
               rendered |-> Some(selected_template.pattern)] :
              selected_template \in _select_template(relevant_templates.val)}

\* generate_commentary: the set of results the call can have (one per
\* template the random weights can select), each with the outcome, the
\* pattern memory after the call, the path taken, the candidates found and
\* the pattern rendered
generate_commentary(last_used, analysis, style, max_length) ==
    LET relevant_templates == _filter_templates(last_used, analysis, style)
    IN  IF relevant_templates.raised
        THEN {HandleException(last_used, analysis, relevant_templates.val)}
        ELSE LET found == {relevant_templates.val[i].pattern :
                              i \in 1..Len(relevant_templates.val)}
             IN  IF relevant_templates.val = <<>>
                 THEN {[outcome |-> Ok(_generate_fallback_commentary(analysis)),
                        last_used_patterns |-> last_used,
                        path |-> "no_template", candidates |-> found,
                        rendered |-> None]}
                 ELSE {[outcome |-> Ok(Prefix(_fill_template(selected_template, analysis),
                                              max_length)),
                        last_used_patterns |->
                            UpdatePatternMemory(last_used, selected_template.pattern),
                        path |-> "template", candidates |-> found,
                        rendered |-> Some(selected_template.pattern)] :
                       selected_template \in _select_template(relevant_templates.val)}


---------------------------------------------------------------------------
(* validate_game_data *)

\* a Python value together with its type: the characters of a str in field
\* str, the value of a number in field num
PyStr(s) == [type |-> "str", str |-> s]
PyInt(n) == [type |-> "int", num |-> n]
PyBool(b) == [type |-> "bool", num |-> IF b THEN 1 ELSE 0]
\* a float, in Milli
PyFloat(n) == [type |-> "float", num |-> n]
NoneValue == [type |-> "NoneType"]

\* isinstance(value, types); bool is a subclass of int
IsInstance(value, types) ==
    \/ value.type \in types
    \/ value.type = "bool" /\ "int" \in types

\* s.split(sep) for a one-character separator
RECURSIVE Split(_, _)
Split(s, sep) ==
    IF ~Contains(s, sep) THEN <<s>>
    ELSE LET i == CHOOSE j \in 1..Len(s) :
                      /\ SubSeq(s, j, j) = sep
                      /\ \A k \in 1..(j - 1) : SubSeq(s, k, k) # sep
         IN  <<SubSeq(s, 1, i - 1)>> \o Split(SubSeq(s, i + 1, Len(s)), sep)

\* str.isdigit() on the characters that occur in the payloads: the ASCII
\* digits and SUPERSCRIPT TWO, which is a digit to isdigit() and not to int()
isdigit(s) ==
    /\ Len(s) > 0
    /\ \A i \in 1..Len(s) :
          DigitVal(SubSeq(s, i, i)) >= 0 \/ SubSeq(s, i, i) = "²"

\* a run of lo..hi ASCII digits
IsDecimal(s, lo, hi) ==
    /\ Len(s) \in lo..hi
    /\ \A i \in 1..Len(s) : DigitVal(SubSeq(s, i, i)) >= 0

DaysInMonth(year, month) ==
    IF month = 2
    THEN IF year % 4 = 0 /\ (year % 100 # 0 \/ year % 400 = 0) THEN 29 ELSE 28
    ELSE IF month \in {4, 6, 9, 11} THEN 30 ELSE 31

\* datetime.strptime(text, '%Y-%m-%d %H:%M:%S'): four digits of year, one or
\* two digits for each other field, one or more blanks between date and time;
\* ValueError when the text does not match or names no real date and time
strptime(text) ==
    LET blanks == Split(text, " ")
        date == Split(blanks[1], "-")
        time == Split(blanks[Len(blanks)], ":")
    IN  IF /\ Len(blanks) >= 2
           /\ \A i \in 2..(Len(blanks) - 1) : blanks[i] = ""
           /\ Len(date) = 3
           /\ Len(time) = 3
           /\ IsDecimal(date[1], 4, 4)
           /\ \A i \in 2..3 : IsDecimal(date[i], 1, 2)
           /\ \A i \in 1..3 : IsDecimal(time[i], 1, 2)
           /\ DigitsVal(date[1]) >= 1
           /\ DigitsVal(date[2]) \in 1..12
           /\ DigitsVal(date[3]) \in 1..DaysInMonth(DigitsVal(date[1]), DigitsVal(date[2]))
           /\ DigitsVal(time[1]) <= 23
           /\ DigitsVal(time[2]) <= 59
           /\ DigitsVal(time[3]) <= 59
        THEN Ok(<<DigitsVal(date[1]), DigitsVal(date[2]), DigitsVal(date[3]),
                  DigitsVal(time[1]), DigitsVal(time[2]), DigitsVal(time[3])>>)
        ELSE Raise("ValueError")

\* raise ValidationError(message)
ValidationError(message) ==
    [raised |-> TRUE, val |-> "ValidationError", message |-> message]

\* the items of the required_fields dict, in order
required_fields ==
    <<[field |-> "game_id", expected_type |-> {"str"}],
      [field |-> "timestamp", expected_type |-> {"str"}],
      [field |-> "home_team", expected_type |-> {"str"}],
      [field |-> "away_team", expected_type |-> {"str"}],
      [field |-> "home_score", expected_type |-> {"int", "float"}],
      [field |-> "away_score", expected_type |-> {"int", "float"}],
      [field |-> "period", expected_type |-> {"int", "str"}],
      [field |-> "game_time", expected_type |-> {"str"}]>>

\* the loop over required_fields; the message of a type error is kept up to
\* the field name
RECURSIVE CheckRequiredFields(_, _)
CheckRequiredFields(fields, data) ==
    IF fields = <<>> THEN Ok(TRUE)
    ELSE LET field == Head(fields).field
         IN  IF field \notin DOMAIN data
             THEN ValidationError("Missing required field: " \o field)
             ELSE IF ~IsInstance(data[field], Head(fields).expected_type)
             THEN ValidationError("Invalid type for " \o field)
             ELSE CheckRequiredFields(Tail(fields), data)

\* validate_game_data: True, or the exception that leaves the function (the
\* except clause catches ValidationError alone, and raises it again)
validate_game_data(data) ==
    LET fields == CheckRequiredFields(required_fields, data)
    IN  IF fields.raised THEN fields
        ELSE IF strptime(data.timestamp.str).raised
        THEN ValidationError("Invalid timestamp format. Expected: YYYY-MM-DD HH:MM:SS")
        ELSE IF data.home_score.num < 0 \/ data.away_score.num < 0
        THEN ValidationError("Scores cannot be negative")
        ELSE LET game_time == data.game_time.str
                 parts == Split(game_time, ":")
             IN  IF ~Contains(game_time, ":")
                 THEN ValidationError("Invalid game time format. Expected: MM:SS")
                 \* minutes, seconds = game_time.split(':')
                 ELSE IF Len(parts) # 2 THEN Raise("ValueError")
                 ELSE IF ~(isdigit(parts[1]) /\ isdigit(parts[2]))
                 THEN ValidationError("Game time must contain valid numbers")
                 ELSE LET seconds == IntOf(parts[2])
                      IN  IF seconds.raised THEN seconds
                          ELSE IF seconds.val >= 60
                          THEN ValidationError("Seconds must be less than 60")
                          ELSE Ok(TRUE)

---------------------------------------------------------------------------
(* SpeechSynthesizer: the voice profiles *)

\* VoiceProfile(voice_name, style, rate, pitch); rate and pitch in Milli
VoiceProfile(voice_name, style, rate, pitch) ==
    [voice_name |-> voice_name, style |-> style, rate |-> rate, pitch |-> pitch]

\* SpeechSynthesizer.__init__: the three profiles
\* the value of a number in Milli
InMilli(value) == IF value.type = "float" THEN value.num ELSE value.num * Milli

IsNumber(value) == value.type \in {"int", "float", "bool"}

Max(a, b) == IF a >= b THEN a ELSE b

\* max(low, min(high, value)) in Milli; TypeError when value is no number
Clamp(low, high, value) ==
    IF IsNumber(value) THEN Ok(Max(low, Min(high, InMilli(value))))
    ELSE Raise("TypeError")

\* bool(voice_name): None and the empty string are falsy
Truthy(value) == value.type = "str" /\ value.str # ""

\* mutant: rate and pitch are stored as given
update_voice_profile_unclamped(profiles, style, voice_name, rate, pitch) ==
    IF style \notin DOMAIN profiles THEN [returned |-> FALSE, voice_profiles |-> profiles]
    ELSE [returned |-> TRUE,
          voice_profiles |->
              [profiles EXCEPT
                  ![style].voice_name = IF Truthy(voice_name) THEN voice_name.str ELSE @,
                  ![style].rate = IF IsNumber(rate) THEN InMilli(rate) ELSE @,
                  ![style].pitch = IF IsNumber(pitch) THEN InMilli(pitch) ELSE @]]

\* update_voice_profile: the value returned and voice_profiles after the
\* call.  The assignments made before a TypeError stay; the except clause
\* returns False.
update_voice_profile(profiles, style, voice_name, rate, pitch) ==
    IF style \notin DOMAIN profiles THEN [returned |-> FALSE, voice_profiles |-> profiles]
    ELSE LET named == IF Truthy(voice_name)
                      THEN [profiles EXCEPT ![style].voice_name = voice_name.str]
                      ELSE profiles
             new_rate == Clamp(500, 2000, rate)
             new_pitch == Clamp(-12000, 12000, pitch)
             rated == IF rate = NoneValue THEN named
                      ELSE [named EXCEPT ![style].rate = new_rate.val]
         IN  IF rate # NoneValue /\ new_rate.raised
             THEN [returned |-> FALSE, voice_profiles |-> named]
             ELSE IF pitch = NoneValue THEN [returned |-> TRUE, voice_profiles |-> rated]
             ELSE IF new_pitch.raised THEN [returned |-> FALSE, voice_profiles |-> rated]
             ELSE [returned |-> TRUE,
                   voice_profiles |-> [rated EXCEPT ![style].pitch = new_pitch.val]]

InitialVoiceProfiles ==
    [excited |-> VoiceProfile("en-US-ChristopherNeural", "excited", 1100, 2000),
     neutral |-> VoiceProfile("en-US-GuyNeural", "neutral", 1000, 0),
     analytical |-> VoiceProfile("en-US-RogerNeural", "analytical", 900, -1000)]

---------------------------------------------------------------------------
(* GroqClient *)

\* style_instructions of _create_commentary_prompt
style_instructions ==
    [excited |-> "Provide energetic and enthusiastic commentary about this moment",
     neutral |-> "Provide balanced and objective commentary about the current situation",
     analytical |-> "Analyze the strategic implications of the current game situation"]

\* " ".join(play["description"] for play in plays); KeyError when a play has
\* no description
RECURSIVE JoinDescriptions(_)
JoinDescriptions(plays) ==
    IF plays = <<>> THEN Ok("")
    ELSE IF "description" \notin DOMAIN Head(plays) THEN Raise("KeyError")
    ELSE LET rest == JoinDescriptions(Tail(plays))
         IN  IF rest.raised THEN rest
             ELSE IF Tail(plays) = <<>> THEN Ok(Head(plays).description)
             ELSE Ok(Head(plays).description \o " " \o rest.val)

\* _create_commentary_prompt: the prompt, or the KeyError of the first
\* subscript that fails
_create_commentary_prompt(game_stats, style) ==
    LET needed == {"game_time", "home_team", "home_score", "away_team", "away_score"}
        plays == Get(game_stats, "recent_plays", <<>>)
        recent_plays == JoinDescriptions(SubSeq(plays, 1, Min(3, Len(plays))))
    IN  IF ~(needed \subseteq DOMAIN game_stats) THEN Raise("KeyError")
        ELSE IF recent_plays.raised THEN recent_plays
        ELSE IF style \notin DOMAIN style_instructions THEN Raise("KeyError")
        ELSE Ok("Game situation: " \o game_stats.game_time \o " remaining, Score: "
                \o game_stats.home_team \o " " \o ToString(game_stats.home_score)
                \o " - " \o game_stats.away_team \o " "
                \o ToString(game_stats.away_score) \o "\n" \o "Recent plays: "
                \o recent_plays.val \o "\n\n" \o style_instructions[style])

\* lines 60-66 on what the service answered: the post fails, the status is an
\* error status, the body is no JSON (json |-> None), or the subscripts
\* ["choices"][0]["message"]["content"] are applied to the decoded body
ReadCompletion(response) ==
    IF response.failed THEN Raise("ConnectionError")
    ELSE IF response.status_code >= 400 THEN Raise("HTTPError")
    ELSE IF response.json = None THEN Raise("JSONDecodeError")
    ELSE LET body == response.json[1]
         IN  IF "choices" \notin DOMAIN body THEN Raise("KeyError")
             ELSE IF body.choices = <<>> THEN Raise("IndexError")
             ELSE IF "message" \notin DOMAIN body.choices[1] THEN Raise("KeyError")
             ELSE IF "content" \notin DOMAIN body.choices[1].message
             THEN Raise("KeyError")
             ELSE Ok(body.choices[1].message.content)

\* GroqClient.generate_commentary: the prompt is built before the try block
\* is entered; inside it every exception ends in None being returned
GroqClient_generate_commentary(game_stats, style, response) ==
    LET prompt == _create_commentary_prompt(game_stats, style)
        completion == ReadCompletion(response)
    IN  IF prompt.raised THEN prompt
        ELSE IF completion.raised THEN Ok(None)
        ELSE Ok(Some(completion.val))

---------------------------------------------------------------------------
(* Snapshots the analyzer is run on.  Every one of them meets the validation
   contract of validate_game_data: the eight required fields with their
   types, a well-formed timestamp, scores >= 0, game_time MM:SS with
   seconds < 60. *)

HomeTeam == "Lions"
AwayTeam == "Tigers"

BaseStats ==
    [game_id |-> "G1", timestamp |-> "2024-01-01 12:00:00",
     home_team |-> HomeTeam, away_team |-> AwayTeam,
     home_score |-> 0, away_score |-> 0, period |-> 1, game_time |-> "10:00"]

\* longest recent_scores list
MaxRecentScores == 6

\* largest attempts / successes counter
MaxAttempts == 2

ScoringPlays == SeqsUpTo({[team |-> HomeTeam], [team |-> AwayTeam]}, MaxRecentScores)

\* an optional key: absent, or present with one of the values
Optional(key, values) == {<<>>} \cup {key :> v : v \in values}

MomentumSnapshots == {("recent_scores" :> rs) @@ BaseStats : rs \in ScoringPlays}

PossessionSnapshots ==
    {p @@ rs @@ BaseStats :
        p \in Optional("possession", {HomeTeam, AwayTeam, "Bears"}),
        rs \in Optional("recent_scores",
                        {<<>>, <<[team |-> HomeTeam]>>, <<[team |-> AwayTeam]>>})}

EfficiencySnapshots ==
    {a @@ b @@ BaseStats :
        a \in Optional("home_attempts", 0..MaxAttempts),
        b \in Optional("home_successes", 0..MaxAttempts)}
    \cup {("away_attempts" :> 0) @@ ("away_successes" :> 0) @@ BaseStats}

SituationSnapshots ==
    {[BaseStats EXCEPT !.game_time = t, !.home_score = sc[1], !.away_score = sc[2]] :
        t \in {"10:00", "75:00", "00:30"},
        sc \in {<<0, 0>>, <<21, 14>>, <<14, 21>>}}
    \cup {("home_pressure" :> 150) @@ ("away_defense" :> 40) @@ BaseStats}

GoalEvent ==
    [type |-> "score_change", description |-> "goal", timestamp |-> "12:00:01",
     teams |-> <<HomeTeam>>]

TimeoutEvent ==
    [type |-> "timeout", description |-> "timeout", timestamp |-> "12:00:02",
     teams |-> <<AwayTeam>>, time_remaining |-> 0]

EventSnapshots ==
    {("recent_events" :> ev) @@ BaseStats :
        ev \in SeqsUpTo({GoalEvent, TimeoutEvent}, 2)}

Snapshots ==
    MomentumSnapshots \cup PossessionSnapshots \cup EfficiencySnapshots
    \cup SituationSnapshots \cup EventSnapshots

---------------------------------------------------------------------------
(* The analyzer as a state machine *)

InitAnalyzer ==
    /\ previous_stats = None
    /\ analysis_result = Ok(<<>>)
    /\ analyzed = None
    /\ calls = 0

InitMoments ==
    /\ recent_events = <<>>
    /\ key_moments = <<>>

Patterns == {_load_templates[i].pattern : i \in 1..Len(_load_templates)}

InitGenerator ==
    /\ last_used_patterns = <<>>
    /\ commentary = Ok("")
    /\ request = None
    /\ path = "none"
    /\ candidates = {}
    /\ history = [p \in Patterns |-> [age |-> -1, evicted |-> FALSE]]

InitSynthesizer == voice_profiles = InitialVoiceProfiles

\* no stateless operation has been called yet
InitCalls ==
    /\ invoked = None
    /\ returned = Ok(None)

Init == InitAnalyzer /\ InitMoments /\ InitGenerator /\ InitSynthesizer /\ InitCalls

\* one call of GameAnalyzer.analyze_game_state
AnalyzeGameState(current_stats) ==
    LET call == analyze_game_state(previous_stats, current_stats)
    IN  /\ analysis_result' = call.outcome
        /\ previous_stats' = call.previous_stats
        /\ analyzed' = Some(current_stats)
        /\ calls' = (calls + 1) % 2
        /\ UNCHANGED <<momentVars, generatorVars, synthesizerVars, callVars>>

NextAnalyzer == \E s \in Snapshots : AnalyzeGameState(s)

SpecAnalyzer == Init /\ [][NextAnalyzer]_vars

---------------------------------------------------------------------------
(* _identify_key_moments on a growing recent_events list *)

\* longest recent_events list
MaxEvents == 3

Event(type, description) ==
    [type |-> type, description |-> description, timestamp |-> "12:00:00",
     teams |-> <<HomeTeam, AwayTeam>>]

\* importances: 0.8, 1.2 capped to 1.0, 0.6, 1.0, 0.8, 0.3, 0.35, -1.2; on each of
\* them the float arithmetic of the code gives the exact value
Events ==
    {Event("score_change", "e1"),
     ("time_remaining" :> SecondsPerHour) @@ Event("SCORE_CHANGE", "e2"),
     Event("penalty", "e3"),
     ("time_remaining" :> 0) @@ Event("timeout", "e4"),
     ("time_remaining" :> 0) @@ Event("possession_change", "e5"),
     Event("foul", "e6"),
     ("time_remaining" :> 2 * SecondsPerHour) @@ Event("injury", "e7"),
     ("time_remaining" :> 4 * SecondsPerHour) @@ Event("score_change", "e8")}

\* the feed reports one more event and the key moments are identified again
IdentifyKeyMoments(event) ==
    /\ Len(recent_events) < MaxEvents
    /\ recent_events' = Append(recent_events, event)
    /\ key_moments' =
           _identify_key_moments(("recent_events" :> recent_events') @@ BaseStats)
    /\ UNCHANGED <<analyzerVars, calls, generatorVars, synthesizerVars, callVars>>

NextMoments == \E e \in Events : IdentifyKeyMoments(e)

SpecMoments == Init /\ [][NextMoments]_vars

---------------------------------------------------------------------------
(* The generator as a state machine *)

\* the analysis of snapshot s by an analyzer that holds a previous snapshot
AnalysisOf(s) == analyze_game_state(Some(BaseStats), s).outcome.val

ThreeHomeScores == <<[team |-> HomeTeam], [team |-> HomeTeam], [team |-> HomeTeam]>>

\* analyses handed to generate_commentary: the empty dict, empty maps, a
\* momentum map alone, analyses the analyzer returns (momentum 0.5/0.5 with
\* efficiency 0.0, momentum 0.8/0.2 with efficiency 1.0), and a dict that also
\* carries the teams and the score
Analyses ==
    {<<>>,
     [momentum |-> <<>>, performance_metrics |-> <<>>],
     [momentum |-> [home |-> 800, away |-> 200]],
     AnalysisOf(BaseStats),
     AnalysisOf(("recent_scores" :> ThreeHomeScores) @@ ("home_attempts" :> 1)
                @@ ("home_successes" :> 1) @@ BaseStats),
     [home_team |-> HomeTeam, away_team |-> AwayTeam, home_score |-> 14,
      away_score |-> 21, momentum |-> [home |-> 100, away |-> 900],
      performance_metrics |-> [home |-> [efficiency |-> 500],
                               away |-> [efficiency |-> 700]]]}

Styles == {"neutral", "excited", "analytical", "dramatic"}

MaxLengths == {1, 10, 40, 150}

\* calls since each pattern was last rendered, saturating past the memory size,
\* and whether the pattern left last_used_patterns since
HistoryAfter(result) ==
    [p \in Patterns |->
        IF result.rendered = Some(p) THEN [age |-> 0, evicted |-> FALSE]
        ELSE [age |-> IF history[p].age = -1 THEN -1
                      ELSE Min(history[p].age + 1, max_pattern_memory + 1),
              evicted |-> \/ history[p].evicted
                          \/ /\ InList(p, last_used_patterns)
                             /\ ~InList(p, result.last_used_patterns)]]

\* one call of CommentaryGenerator.generate_commentary
GenerateCommentary(analysis, style, max_length) ==
    \E result \in generate_commentary(last_used_patterns, analysis, style, max_length) :
        /\ commentary' = result.outcome
        /\ last_used_patterns' = result.last_used_patterns
        /\ request' = Some([analysis |-> analysis, style |-> style,
                            max_length |-> max_length])
        /\ path' = result.path
        /\ candidates' = result.candidates
        /\ history' = HistoryAfter(result)
        /\ UNCHANGED <<analyzerVars, calls, momentVars, synthesizerVars, callVars>>

NextGenerator ==
    \E analysis \in Analyses, style \in Styles, max_length \in MaxLengths :
        GenerateCommentary(analysis, style, max_length)

SpecGenerator == Init /\ [][NextGenerator]_vars

---------------------------------------------------------------------------
(* The analyzer called over and over with one snapshot that reports no
   scoring play *)

RepeatSnapshots ==
    {p @@ a @@ s :
        p \in Optional("possession", {HomeTeam, AwayTeam, "Bears"}),
        a \in Optional("home_attempts", 0..MaxAttempts),
        s \in SituationSnapshots \cup {("recent_scores" :> <<>>) @@ BaseStats}}

FirstCall(s) == analyzed = None /\ AnalyzeGameState(s)

RepeatCall == analyzed # None /\ AnalyzeGameState(analyzed[1])

NextRepeat == (\E s \in RepeatSnapshots : FirstCall(s)) \/ RepeatCall

\* the pipeline keeps polling: the next call always comes
SpecRepeat == Init /\ [][NextRepeat]_vars /\ WF_vars(NextRepeat)

---------------------------------------------------------------------------
(* validate_game_data on incoming payloads, and _parse_time_remaining on the
   game_time of a payload that was accepted *)

GameTimes ==
    {"10:00", "75:00", "00:30", "10:59", "10:60", "10:75", "5:7", "1000", "10:",
     ":", "ab:cd", "1:2:3", "²:00", "10:²"}

\* a payload that meets the validation contract
ValidPayload ==
    [game_id |-> PyStr("G1"), timestamp |-> PyStr("2024-01-01 12:00:00"),
     home_team |-> PyStr(HomeTeam), away_team |-> PyStr(AwayTeam),
     home_score |-> PyInt(21), away_score |-> PyInt(14), period |-> PyStr("Q1"),
     game_time |-> PyStr("10:00")]

\* payloads with fields left out, of a wrong type, a bad timestamp or a
\* negative score, alone and together
FieldFaultPayloads ==
    {game_id @@ home_score
       @@ [timestamp |-> timestamp, home_team |-> PyStr(HomeTeam),
           away_team |-> PyStr(AwayTeam), away_score |-> PyInt(14),
           period |-> period, game_time |-> PyStr("10:00")] :
        game_id \in Optional("game_id", {PyStr("G1"), PyInt(7)}),
        home_score \in Optional("home_score",
                                {PyInt(21), PyInt(-1), PyFloat(2500), PyFloat(-500),
                                 PyStr("21")}),
        timestamp \in {PyStr("2024-01-01 12:00:00"), PyStr("2024-02-30 12:00:00"),
                       PyStr("2024-01-01T12:00:00"), PyInt(0)},
        period \in {PyInt(1), PyStr("Q1"), PyFloat(1500), NoneValue}}

\* payloads that differ in game_time, with and without a negative score
GameTimePayloads ==
    {[ValidPayload EXCEPT !.game_time = game_time, !.away_score = away_score] :
        game_time \in {PyStr(t) : t \in GameTimes} \cup {PyInt(600)},
        away_score \in {PyInt(14), PyInt(-3)}}

Payloads == FieldFaultPayloads \cup GameTimePayloads

Call(op, args) == Some([op |-> op, args |-> args])

\* one call of validate_game_data
ValidateGameData(data) ==
    /\ invoked' = Call("validate_game_data", data)
    /\ returned' = validate_game_data(data)
    /\ UNCHANGED <<analyzerVars, calls, momentVars, generatorVars, synthesizerVars>>

\* the analyzer parses the game_time of the payload that was just accepted
ParseTimeRemaining ==
    /\ invoked # None
    /\ invoked[1].op = "validate_game_data"
    /\ returned = Ok(TRUE)
    /\ invoked' = Call("_parse_time_remaining", invoked[1].args.game_time.str)
    /\ returned' = _parse_time_remaining(invoked[1].args.game_time.str)
    /\ UNCHANGED <<analyzerVars, calls, momentVars, generatorVars, synthesizerVars>>

NextValidator == (\E data \in Payloads : ValidateGameData(data)) \/ ParseTimeRemaining

SpecValidator == Init /\ [][NextValidator]_vars

---------------------------------------------------------------------------
(* The narration pipeline: each snapshot is analyzed and the analysis is
   handed to the generator *)

PipelineSnapshots ==
    {[BaseStats EXCEPT !.home_score = 21, !.away_score = 14],
     [BaseStats EXCEPT !.home_score = 14, !.away_score = 21]}
    \cup {("recent_scores" :> ThreeHomeScores) @@ ("home_attempts" :> 1)
             @@ ("home_successes" :> 1) @@ BaseStats,
          ("home_attempts" :> 0) @@ BaseStats}

\* analyze_game_state(current_stats), then generate_commentary on the analysis
\* it returned; no commentary is generated when the analysis fails
NarrateSnapshot(current_stats, style) ==
    LET call == analyze_game_state(previous_stats, current_stats)
    IN  /\ analysis_result' = call.outcome
        /\ previous_stats' = call.previous_stats
        /\ analyzed' = Some(current_stats)
        /\ calls' = (calls + 1) % 2
        /\ IF call.outcome.raised
           THEN UNCHANGED generatorVars
           ELSE \E result \in generate_commentary(last_used_patterns, call.outcome.val,
                                                  style, 150) :
                    /\ commentary' = result.outcome
                    /\ last_used_patterns' = result.last_used_patterns
                    /\ request' = Some([analysis |-> call.outcome.val, style |-> style,
                                        max_length |-> 150])
                    /\ path' = result.path
                    /\ candidates' = result.candidates
                    /\ history' = HistoryAfter(result)
        /\ UNCHANGED <<momentVars, synthesizerVars, callVars>>

NextPipeline == \E s \in PipelineSnapshots, style \in Styles : NarrateSnapshot(s, style)

SpecPipeline == Init /\ [][NextPipeline]_vars

---------------------------------------------------------------------------
(* _get_leading_team on dicts that carry scores *)

\* largest score
MaxScore == 21

ScoredAnalyses ==
    {home_score @@ away_score @@ teams :
        home_score \in Optional("home_score", 0..MaxScore),
        away_score \in Optional("away_score", 0..MaxScore),
        teams \in {<<>>, [home_team |-> HomeTeam, away_team |-> AwayTeam]}}

\* one call of _get_leading_team
GetLeadingTeam(analysis) ==
    /\ invoked' = Call("_get_leading_team", analysis)
    /\ returned' = Ok(_get_leading_team(analysis))
    /\ UNCHANGED <<analyzerVars, calls, momentVars, generatorVars, synthesizerVars>>

NextLeadingTeam == \E analysis \in ScoredAnalyses : GetLeadingTeam(analysis)

SpecLeadingTeam == Init /\ [][NextLeadingTeam]_vars

---------------------------------------------------------------------------
(* update_voice_profile called with any arguments, any number of times *)

VoiceStyles == {"excited", "neutral", "analytical", "dramatic"}

VoiceNames == {NoneValue, PyStr("en-GB-RyanNeural")}

\* rates below, inside and above [0.5, 2.0], and a value that is no number
Rates == {NoneValue, PyFloat(-1000), PyInt(1), PyInt(5), PyStr("fast")}

\* pitches below and above [-12, 12]
Pitches == {NoneValue, PyInt(-20), PyFloat(12500)}

\* one call of SpeechSynthesizer.update_voice_profile
UpdateVoiceProfile(style, voice_name, rate, pitch) ==
    LET call == update_voice_profile(voice_profiles, style, voice_name, rate, pitch)
    IN  /\ voice_profiles' = call.voice_profiles
        /\ invoked' = Call("update_voice_profile", [style |-> style])
        /\ returned' = Ok(call.returned)
        /\ UNCHANGED <<analyzerVars, calls, momentVars, generatorVars>>

NextSynthesizer ==
    \E style \in VoiceStyles, voice_name \in VoiceNames, rate \in Rates,
       pitch \in Pitches :
        UpdateVoiceProfile(style, voice_name, rate, pitch)

SpecSynthesizer == Init /\ [][NextSynthesizer]_vars

---------------------------------------------------------------------------
(* GroqClient.generate_commentary against a service that may fail *)

PromptFields == {"game_time", "home_team", "home_score", "away_team", "away_score"}

RecentPlays ==
    {<<>>, <<[description |-> "Goal by Lions"]>>,
     <<[description |-> "Goal by Lions"], [description |-> "Timeout"]>>,
     <<[player |-> "No. 9"]>>}

\* game statistics with any of the fields the prompt reads left out
GameStats ==
    {recent_plays @@ [field \in present |-> BaseStats[field]] :
        present \in SUBSET PromptFields,
        recent_plays \in Optional("recent_plays", RecentPlays)}

HttpStatus == {200, 500}

Completion(text) == [choices |-> <<[message |-> [content |-> text]]>>]

\* what the service can answer: no answer, an error status, a body that is no
\* JSON, JSON of another shape, a completion
Responses ==
    {[failed |-> TRUE, status_code |-> 0, json |-> None]}
    \cup {[failed |-> FALSE, status_code |-> status, json |-> json] :
            status \in HttpStatus,
            json \in {None, Some(<<>>), Some([choices |-> <<>>]),
                      Some([choices |-> <<[index |-> 0]>>]),
                      Some([choices |-> <<[message |-> [role |-> "assistant"]]>>]),
                      Some(Completion("Lions lead the way!"))}}

\* one call of GroqClient.generate_commentary
GroqGenerateCommentary(game_stats, style, response) ==
    /\ invoked' = Call("GroqClient.generate_commentary",
                       [game_stats |-> game_stats, style |-> style])
    /\ returned' = GroqClient_generate_commentary(game_stats, style, response)
    /\ UNCHANGED <<analyzerVars, calls, momentVars, generatorVars, synthesizerVars>>

NextGroq ==
    \E game_stats \in GameStats, style \in Styles, response \in Responses :
        GroqGenerateCommentary(game_stats, style, response)

SpecGroq == Init /\ [][NextGroq]_vars

---------------------------------------------------------------------------
(* Properties *)

LastRequest == request[1]

LastSnapshot == analyzed[1]

\* C1: for every analysis, style and positive max_length, generate_commentary
\* returns a non-empty string of at most max_length characters, on the
\* template path and on the fallback path alike.
C1_NonEmptyWithinMaxLength ==
    (request # None /\ LastRequest.max_length > 0) =>
        /\ ~commentary.raised
        /\ Len(commentary.val) >= 1
        /\ Len(commentary.val) <= LastRequest.max_length

\* C2: generate_commentary never raises; a failure during filtering,
\* selection or rendering ends in the fallback sentence being returned.
C2_NeverRaises ==
    request # None =>
        /\ ~commentary.raised
        /\ path = "error" =>
              commentary.val =
                  "The game continues with a score of "
                  \o ToString(Get(LastRequest.analysis, "home_score", 0)) \o "-"
                  \o ToString(Get(LastRequest.analysis, "away_score", 0)) \o "."

\* a call whose analysis has no momentum values made max() fail, and text came back
C2_Witness ==
    /\ request # None
    /\ path = "error"
    /\ LastRequest.style = "neutral"
    /\ DOMAIN Get(LastRequest.analysis, "momentum", <<>>) = {}
    /\ ~commentary.raised

\* C3: for every snapshot that meets the validation contract,
\* analyze_game_state completes, returns an analysis with key_moments,
\* momentum, performance_metrics and game_situation, and leaves the snapshot
\* just analyzed as previous_stats.
C3_AnalysisCompletes ==
    analyzed # None =>
        /\ ~analysis_result.raised
        /\ DOMAIN analysis_result.val =
               {"key_moments", "momentum", "performance_metrics", "game_situation"}
        /\ previous_stats = analyzed

\* C4: a call of analyze_game_state that fails leaves previous_stats as it was.
C4_FailureLeavesPrevious ==
    [][analysis_result'.raised => previous_stats' = previous_stats]_vars

\* a call failed while an earlier, different snapshot was held as previous
C4_Witness ==
    /\ analyzed # None
    /\ analysis_result.raised
    /\ previous_stats # None
    /\ previous_stats # analyzed

\* C5: every momentum the analyzer returns has home >= 0, away >= 0 and
\* home + away = 1.0.
C5_MomentumNormalized ==
    (analyzed # None /\ ~analysis_result.raised) =>
        LET momentum == analysis_result.val.momentum
        IN  /\ momentum.home >= 0
            /\ momentum.away >= 0
            /\ momentum.home + momentum.away = 1000

\* the events of recent_events whose importance reaches 0.6, by position
KeptPositions ==
    {k \in 1..Len(recent_events) :
        _calculate_event_importance(recent_events[k]) >= 21600}

\* C6: the key moments are in non-increasing importance, moments of equal
\* importance in event order; they are exactly the events whose importance
\* is at least 0.6; every importance lies in [0.6, 1.0].
C6_KeyMomentsSorted ==
    /\ \A i, j \in 1..Len(key_moments) :
          i < j => key_moments[i].importance >= key_moments[j].importance
    /\ \A i \in 1..Len(key_moments) :
          key_moments[i].importance >= 21600 /\ key_moments[i].importance <= 36000
    /\ Len(key_moments) = Cardinality(KeptPositions)
    /\ \E f \in [1..Len(key_moments) -> KeptPositions] :
          /\ \A i, j \in 1..Len(key_moments) : i # j => f[i] # f[j]
          /\ \A i \in 1..Len(key_moments) :
                /\ key_moments[i].description = recent_events[f[i]].description
                /\ key_moments[i].event_type = recent_events[f[i]].type
                /\ key_moments[i].importance =
                       _calculate_event_importance(recent_events[f[i]])
          /\ \A i, j \in 1..Len(key_moments) :
                (i < j /\ key_moments[i].importance = key_moments[j].importance)
                    => f[i] < f[j]

\* three events arrived in increasing importance, with a dropped one among
\* them, and two moments tie at 1.0
C6_Witness ==
    /\ Len(recent_events) = 3
    /\ recent_events[1].description = "e6"
    /\ recent_events[2].description = "e4"
    /\ recent_events[3].description = "e2"
    /\ Len(key_moments) = 2
    /\ key_moments[1].description = "e4"
    /\ key_moments[2].description = "e2"

\* C7: last_used_patterns never holds more than 5 entries.
C7_MemoryBounded == Len(last_used_patterns) <= 5

\* every template of the catalog has been rendered and a later call fell back
C7_Witness ==
    /\ Len(last_used_patterns) = Len(_load_templates)
    /\ path = "no_template"

\* C8: a pattern rendered by generation N and not evicted since is not among
\* the candidates of generations N+1 .. N+5.
C8_UsedTemplateExcluded ==
    [][\A p \in Patterns :
          (history[p].age \in 0..4 /\ ~history[p].evicted) => p \notin candidates']_vars

\* the fifth generation after a pattern was rendered asked for its style with
\* its conditions met, and the pattern was not a candidate
C8_Witness ==
    /\ request # None
    /\ path = "no_template"
    /\ \E p \in Patterns :
          /\ history[p].age = 5
          /\ ~history[p].evicted
          /\ p \notin candidates
          /\ LET unused == _filter_templates(<<>>, LastRequest.analysis, LastRequest.style)
             IN  ~unused.raised /\ \E i \in 1..Len(unused.val) : unused.val[i].pattern = p

SteadyMomentum(stats) ==
    IF "possession" \notin DOMAIN stats THEN [home |-> 500, away |-> 500]
    ELSE IF stats.possession = stats.home_team THEN [home |-> 520, away |-> 480]
    ELSE [home |-> 480, away |-> 520]

C10_EfficiencyZeroAttempts ==
    analyzed # None =>
        \A team \in {"home", "away"} :
            (/\ Get(LastSnapshot, team \o "_attempts", 0) = 0
             /\ Get(LastSnapshot, team \o "_successes", 0) = 0)
            => LET efficiency == _calculate_efficiency(LastSnapshot, team)
               IN  ~efficiency.raised /\ efficiency.val = 0

LastCall == invoked[1]

\* the payload carries field with a value of one of the types
HasField(data, field, types) ==
    field \in DOMAIN data /\ data[field].type \in types

\* YYYY-MM-DD HH:MM:SS naming a real date and time
WellFormedTimestamp(s) ==
    /\ Len(s) = 19
    /\ \A i \in 1..19 :
          IF i \in {5, 8} THEN SubSeq(s, i, i) = "-"
          ELSE IF i = 11 THEN SubSeq(s, i, i) = " "
          ELSE IF i \in {14, 17} THEN SubSeq(s, i, i) = ":"
          ELSE DigitVal(SubSeq(s, i, i)) >= 0
    /\ DigitsVal(SubSeq(s, 1, 4)) >= 1
    /\ DigitsVal(SubSeq(s, 6, 7)) \in 1..12
    /\ DigitsVal(SubSeq(s, 9, 10))
           \in 1..DaysInMonth(DigitsVal(SubSeq(s, 1, 4)), DigitsVal(SubSeq(s, 6, 7)))
    /\ DigitsVal(SubSeq(s, 12, 13)) <= 23
    /\ DigitsVal(SubSeq(s, 15, 16)) <= 59
    /\ DigitsVal(SubSeq(s, 18, 19)) <= 59

\* minutes and seconds as decimal numbers around one colon
MinutesSecondsForm(s) ==
    LET parts == Split(s, ":")
    IN  /\ Len(parts) = 2
        /\ \A i \in 1..2 :
              /\ Len(parts[i]) > 0
              /\ \A k \in 1..Len(parts[i]) : DigitVal(SubSeq(parts[i], k, k)) >= 0

SecondsOf(s) == DigitsVal(Split(s, ":")[2])

MinutesOf(s) == DigitsVal(Split(s, ":")[1])

\* the first requirement of the validation contract that data violates, in
\* check order, as the message reported for it; "" when data meets the contract
FirstViolation(data) ==
    LET broken == {i \in 1..Len(required_fields) :
                      ~HasField(data, required_fields[i].field,
                                required_fields[i].expected_type)}
        first == CHOOSE i \in broken : \A j \in broken : i <= j
    IN  IF broken # {}
        THEN IF required_fields[first].field \notin DOMAIN data
             THEN "Missing required field: " \o required_fields[first].field
             ELSE "Invalid type for " \o required_fields[first].field
        ELSE IF ~WellFormedTimestamp(data.timestamp.str)
        THEN "Invalid timestamp format. Expected: YYYY-MM-DD HH:MM:SS"
        ELSE IF data.home_score.num < 0 \/ data.away_score.num < 0
        THEN "Scores cannot be negative"
        ELSE IF ~Contains(data.game_time.str, ":")
        THEN "Invalid game time format. Expected: MM:SS"
        ELSE IF ~MinutesSecondsForm(data.game_time.str)
        THEN "Game time must contain valid numbers"
        ELSE IF SecondsOf(data.game_time.str) >= 60
        THEN "Seconds must be less than 60"
        ELSE ""

\* C11: validate_game_data returns True exactly for the payloads that meet
\* the validation contract; for every other payload it raises ValidationError
\* for the first requirement violated in check order, and no exception of
\* another type leaves the validator.
C11_ValidationErrorOnly ==
    (invoked # None /\ LastCall.op = "validate_game_data") =>
        IF FirstViolation(LastCall.args) = ""
        THEN returned = Ok(TRUE)
        ELSE /\ returned.raised
             /\ returned.val = "ValidationError"
             /\ returned.message = FirstViolation(LastCall.args)

\* in a payload, game_time is a string of the minutes:seconds form with
\* seconds >= 60
SecondsTooLarge(data) ==
    /\ HasField(data, "game_time", {"str"})
    /\ MinutesSecondsForm(data.game_time.str)
    /\ SecondsOf(data.game_time.str) >= 60

\* C12: a payload whose game_time has seconds >= 60 is rejected by
\* validate_game_data, and _parse_time_remaining returns
\* minutes * 60 + seconds for the game_time of every payload it accepts.
C12_AcceptedGameTimeParses ==
    /\ (invoked # None /\ LastCall.op = "validate_game_data"
          /\ SecondsTooLarge(LastCall.args)) => returned.raised
    /\ (invoked # None /\ LastCall.op = "_parse_time_remaining") =>
          returned = Ok(MinutesOf(LastCall.args) * 60 + SecondsOf(LastCall.args))

\* C13: when generate_commentary takes the fallback path for the analysis of
\* a snapshot, it returns "The game continues with a score of H-A." with H
\* and A the home and away scores of that snapshot, whatever the catalog and
\* the pattern history hold.
C13_FallbackStatesScore ==
    (/\ analyzed # None
     /\ request # None
     /\ ~analysis_result.raised
     /\ LastRequest.analysis = analysis_result.val
     /\ path \in {"no_template", "error"}) =>
        commentary = Ok("The game continues with a score of "
                        \o ToString(LastSnapshot.home_score) \o "-"
                        \o ToString(LastSnapshot.away_score) \o ".")

\* C14: _get_leading_team returns the away team when the away score is
\* strictly higher and the home team otherwise, a tie included, for every
\* pair of scores.
C14_LeadingTeam ==
    (invoked # None /\ LastCall.op = "_get_leading_team") =>
        LET home == Get(LastCall.args, "home_score", 0)
            away == Get(LastCall.args, "away_score", 0)
        IN  /\ ~returned.raised
            /\ home > away => returned.val = Get(LastCall.args, "home_team", "Home team")
            /\ away > home => returned.val = Get(LastCall.args, "away_team", "Away team")
            /\ home = away => returned.val = Get(LastCall.args, "home_team", "Home team")

\* the home team was returned for home 21, away 14
C14_Witness ==
    /\ invoked # None
    /\ LastCall.op = "_get_leading_team"
    /\ LastCall.args = [home_team |-> HomeTeam, away_team |-> AwayTeam,
                        home_score |-> 21, away_score |-> 14]
    /\ returned = Ok(HomeTeam)

\* C15: after any sequence of update_voice_profile calls every profile has
\* rate in [0.5, 2.0] and pitch in [-12, 12]; a call naming a style without
\* profile returns False and changes no profile; a call changes no profile
\* but the one of the style it names.
C15_VoiceProfilesBounded ==
    /\ [](\A style \in DOMAIN voice_profiles :
             /\ voice_profiles[style].rate >= 500
             /\ voice_profiles[style].rate <= 2000
             /\ voice_profiles[style].pitch >= -12000
             /\ voice_profiles[style].pitch <= 12000)
    /\ [][LET style == invoked'[1].args.style
          IN  /\ style \notin DOMAIN voice_profiles =>
                    returned' = Ok(FALSE) /\ voice_profiles' = voice_profiles
              /\ \A other \in DOMAIN voice_profiles \ {style} :
                    voice_profiles'[other] = voice_profiles[other]]_vars

\* rates were clamped at both ends and a pitch at each end, then a call named
\* a style without profile
C15_Witness ==
    /\ voice_profiles["excited"].rate = 2000
    /\ voice_profiles["neutral"].rate = 500
    /\ voice_profiles["neutral"].pitch = -12000
    /\ voice_profiles["analytical"].pitch = 12000
    /\ invoked # None
    /\ LastCall.op = "update_voice_profile"
    /\ LastCall.args.style = "dramatic"
    /\ returned = Ok(FALSE)

\* C16: GroqClient.generate_commentary returns text or None for every
\* game_stats and style; no failure reaches the caller as an exception.
C16_GroqNeverRaises ==
    (invoked # None /\ LastCall.op = "GroqClient.generate_commentary") =>
        ~returned.raised

\* a condition of a template is satisfied by an analysis
ConditionHolds(analysis, c) ==
    IF c.condition = "momentum"
    THEN \E v \in Values(Get(analysis, "momentum", <<>>)) : v >= c.threshold
    ELSE IF c.condition \in {"performance", "efficiency"}
    THEN LET metrics == Get(analysis, "performance_metrics", <<>>)
         IN  \E team \in DOMAIN metrics :
                 Get(metrics[team], "efficiency", 0) >= c.threshold
    ELSE FALSE

\* C17: a catalog template is a candidate exactly when its style is the
\* requested one, its pattern is not in last_used_patterns and each of its
\* conditions is satisfied; a condition of another name is never satisfied;
\* a style without catalog template ends in the fallback sentence.
C17_CandidatesExactly ==
    [][LET r == request'[1]
       IN  /\ \A i \in 1..Len(_load_templates) :
                 LET t == _load_templates[i]
                 IN  t.pattern \in candidates' <=>
                         /\ t.style = r.style
                         /\ ~InList(t.pattern, last_used_patterns)
                         /\ \A k \in 1..Len(t.conditions) :
                               ConditionHolds(r.analysis, t.conditions[k])
           /\ \A name \in {"weather", "Momentum", ""}, threshold \in {-1000, 0, 600} :
                 _check_condition(r.analysis, name, threshold) = Ok(FALSE)
           /\ (\A i \in 1..Len(_load_templates) : _load_templates[i].style # r.style)
                 => /\ path' = "no_template"
                    /\ commentary' = Ok(_generate_fallback_commentary(r.analysis))]_vars

\* the excited template was the one candidate and was rendered
C17_Witness ==
    /\ request # None
    /\ LastRequest.style = "excited"
    /\ candidates = {ExcitedPattern}
    /\ path = "template"

\* C18: a generate_commentary call that returns rendered template text
\* appends the pattern it used at the end of last_used_patterns, dropping the
\* oldest entry when that makes more than 5; a call that returns the fallback
\* sentence leaves last_used_patterns as it was; the list changes in the
\* first case only.
C18_MemoryChangesOnRender ==
    [][/\ path' = "template" =>
             \E p \in candidates' :
                 /\ history'[p].age = 0
                 /\ last_used_patterns' =
                        IF Len(last_used_patterns) + 1 > 5
                        THEN Tail(Append(last_used_patterns, p))
                        ELSE Append(last_used_patterns, p)
       /\ path' # "template" =>
             /\ commentary' = Ok(_generate_fallback_commentary(request'[1].analysis))
             /\ last_used_patterns' = last_used_patterns
       /\ path' = "template" <=> last_used_patterns' # last_used_patterns]_vars

\* the third rendered pattern went to the end of the memory, behind the two
\* rendered before it
C18_Witness ==
    /\ path = "template"
    /\ Len(last_used_patterns) = 3
    /\ history[last_used_patterns[3]].age = 0
    /\ history[last_used_patterns[1]].age > history[last_used_patterns[2]].age
    /\ history[last_used_patterns[2]].age > 0

\* the number of recent scoring plays by team
PlaysBy(stats, team) ==
    LET plays == Get(stats, "recent_scores", <<>>)
    IN  Cardinality({i \in 1..Len(plays) : plays[i].team = team})

\* the momentum of a snapshot when each scoring play gives 0.1 to the team
\* that scored and takes 0.1 from the other, and the team named by
\* possession, if it is one of the two, gets 0.05; normalised to sum 1
CreditedMomentum(stats) ==
    LET trend == 100 * (PlaysBy(stats, stats.home_team) - PlaysBy(stats, stats.away_team))
        holder == Get(stats, "possession", "")
        home == 500 + trend + (IF holder = stats.home_team THEN 50 ELSE 0)
        away == 500 - trend + (IF holder = stats.away_team THEN 50 ELSE 0)
    IN  [home |-> RoundedQuotient(home, home + away, 10).val,
         away |-> RoundedQuotient(away, home + away, 10).val]

\* C19: with a previous snapshot present, the momentum is computed with the
\* 0.05 possession bonus going to home when possession names the home team,
\* to away when it names the away team and to neither team otherwise, and
\* with each scoring play crediting 0.1 to its team and debiting the other.
C19_BonusToHolderOnly ==
    [][(~NoPrevious(previous_stats) /\ ~analysis_result'.raised) =>
          analysis_result'.val.momentum = CreditedMomentum(analyzed'[1])]_vars

====
